---- MODULE Spec2Model ----
(***************************************************************************)
(* The try-on HTTP facade of alexff91/try-on.                               *)
(*                                                                         *)
(* Three servers live in the repository:                                   *)
(*   "typed"  src/unnamed/part_000:1-403   rate limited, model chosen by   *)
(*            the type parameter, routes /tryon /tryon/base64 /tryon/media *)
(*            /tryon/url                                                   *)
(*   "plain"  src/app.mjs                  one fixed model, routes /tryon  *)
(*            and /tryon/base64                                            *)
(*   "p3000"  src/unnamed/part_000:405-518 one fixed model, route /tryon   *)
(*                                                                         *)
(* A handler is an async function: it runs from one await to the next      *)
(* without interruption, and other handlers run while it is suspended.     *)
(* Each action below is one such run: the completion of the awaited        *)
(* operation and all the synchronous code up to the next await (or up to   *)
(* the response).  The scratch files under uploads/ have fixed names and   *)
(* are shared by all the requests of a server.                             *)
(***************************************************************************)
EXTENDS Integers, Sequences, FiniteSets, TLC

\* The request slots of a specification: requests in flight at the same time.
Reqs == {1, 2}

\* Client addresses (req.ip), the key of the rate limiter.
Clients == {"a", "b"}

\* The rate limiter counts every request; the model stops a client at MaxHits.
MaxHits == 102

Variants == {"typed", "plain", "p3000"}

\* Routes(v): the try-on routes server v registers.
Routes(v) ==
  CASE v = "typed" -> {"tryon", "base64", "media", "url"}
    [] v = "plain" -> {"tryon", "base64"}
    [] v = "p3000" -> {"tryon"}

Slots == {"human", "garment"}

\* limiter: max requests per window and per address.
RateMax == 100
TooManyMessage == "Too many requests from this IP, please try again later."

\* getModelUrlByType's message, the 400 messages and the default description.
InvalidTypeMessage == "Invalid type parameter. Allowed values are 'up', 'down', or 'dress'."
Base64RequiredMessage == "Both humanImageBase64 and garmentImageBase64 are required."
URLRequiredMessage == "Both humanImageURL and garmentImageURL are required."
DefaultDescription == "cloth fitting the person shape"
FixedModel == "alexff91/FitMirror"

\* The fixed arguments of the predict call.
DenoisingSteps == 30
Seed == 42
ResizeWidth == 400
ResizeHeight == 600

-----------------------------------------------------------------------------
(* Values *)

Absent == "absent"                \* a request field that is not there
NoModel == "none"
InvalidModel == "invalid"

\* An image: whose it is (the request that supplied it), which slot it is
\* for, and its dimensions (OrigDim: as supplied).
OrigDim == <<0, 0>>
NoImage == [req |-> 0, slot |-> "none", dim |-> OrigDim]
Image(r, s) == [req |-> r, slot |-> s, dim |-> OrigDim]

\* A path: <<kind, request, name>>.  multer stores an upload under a random
\* name, private to its request; every other file has a fixed name.
UndefinedPath == <<"undefined", 0, "">>
UploadPath(r, s) == <<"multer", r, s>>
SharedPath(name) == <<"shared", 0, name>>

SharedNames ==
  {"humanImage_resized.jpg", "garmentImage_resized.jpg",
   "humanImage.jpg", "garmentImage.jpg",
   "humanImage_from_base64.jpg", "garmentImage_from_base64.jpg",
   "humanImage_from_url.jpg", "garmentImage_from_url.jpg"}

ResizedPath(s) ==
  IF s = "human" THEN SharedPath("humanImage_resized.jpg")
                 ELSE SharedPath("garmentImage_resized.jpg")
DownloadPath(s) ==
  IF s = "human" THEN SharedPath("humanImage.jpg")
                 ELSE SharedPath("garmentImage.jpg")
Base64Path(s) ==
  IF s = "human" THEN SharedPath("humanImage_from_base64.jpg")
                 ELSE SharedPath("garmentImage_from_base64.jpg")
URLPath(s) ==
  IF s = "human" THEN SharedPath("humanImage_from_url.jpg")
                 ELSE SharedPath("garmentImage_from_url.jpg")

\* An error value: what error.response.data is ("none": error.response is
\* not set) and error.message.
Err(resp, msg) == [response |-> resp, message |-> msg]

NoReq == [route |-> "none", type |-> Absent, human |-> {}, garment |-> {},
          desc |-> Absent]
NoLocals == [modelUrl |-> NoModel, appClient |-> NoModel,
             humanPath |-> UndefinedPath, garmentPath |-> UndefinedPath,
             humanBuf |-> NoImage, garmentBuf |-> NoImage]

Idle == <<"idle", "-">>
Done == <<"done", "-">>

VARIABLES
  variant,    \* which server this is
  alive,      \* the node process is running
  pc,         \* pc[r]: <<the operation request r awaits, its image slot>>
  req,        \* req[r]: the fields of request r
  loc,        \* loc[r]: the local variables of r's handler
  files,      \* files[name]: the image in the shared scratch file, or NoImage
  resp,       \* resp[r]: the responses sent to r, in order
  trace,      \* trace[r]: the operations r's handler started and how they ended
  predicts,   \* predicts[r]: the payloads of r's predict calls, in order
  hits,       \* hits[c]: the limiter's count for address c in this window
  admitted    \* admitted[c]: requests of c passed on to a handler this window

vars == <<variant, alive, pc, req, loc, files, resp, trace, predicts, hits, admitted>>


-----------------------------------------------------------------------------
(* Pure helpers of the servers *)

ValidTypes == {"up", "down", "dress"}

\* getModelUrlByType with a default endpoint instead of the throw.
getModelUrlByType_Lenient(type) ==
  CASE type = "up"    -> "alexff91/FitMirrorUp"
    [] type = "down"  -> "alexff91/FitMirror-Down"
    [] type = "dress" -> "alexff91/FitMirror-Dress"
    [] OTHER          -> FixedModel

\* getModelUrlByType: the endpoint of a type; InvalidModel stands for the
\* throw of the default branch.
getModelUrlByType(type) ==
  CASE type = "up"    -> "alexff91/FitMirrorUp"
    [] type = "down"  -> "alexff91/FitMirror-Down"
    [] type = "dress" -> "alexff91/FitMirror-Dress"
    [] OTHER          -> InvalidModel

\* One endpoint for every accepted type.
ModelUrlOf_Fixed(v, type) ==
  IF v = "typed" /\ getModelUrlByType(type) = InvalidModel THEN InvalidModel ELSE FixedModel

\* The endpoint a handler connects to: by type on the typed server, fixed
\* on the others.
ModelUrlOf(v, type) == IF v = "typed" THEN getModelUrlByType(type) ELSE FixedModel

\* sharp(input).resize(w, h): the same picture with the new dimensions.
resizeImage(img, w, h) == [img EXCEPT !.dim = <<w, h>>]

\* garmentDescription: `req.body.garmentDescription || default` on the
\* multipart routes, a destructuring default on the JSON routes.
DescriptionOf(q) == IF q.desc = Absent THEN DefaultDescription ELSE q.desc

\* The argument list with the two images in the wrong order.
PredictPayload_Swapped(humanBuf, garmentBuf, description) ==
  <<[background |-> garmentBuf, layers |-> <<>>, composite |-> NoImage],
    humanBuf, description, TRUE, TRUE, DenoisingSteps, Seed>>

\* The argument list of appClient.predict("/tryon", [...]).
PredictPayload(humanBuf, garmentBuf, description) ==
  <<[background |-> humanBuf, layers |-> <<>>, composite |-> NoImage],
    garmentBuf, description, TRUE, TRUE, DenoisingSteps, Seed>>

\* What the remote model makes of a payload: the composite of its two images.
Composite(payload) == [human |-> payload[1].background, garment |-> payload[2]]

\* A catch block that hides the error's message behind a fixed text.
CatchBody_NoMessage(v, err) ==
  IF v # "p3000" /\ err.response # "none" THEN err.response ELSE "Internal Server Error"

\* The body of the catch block's response: error.response.data if
\* error.response is set, else error.message ("p3000": error.message).
CatchBody(v, err) ==
  IF v = "p3000" THEN err.message
  ELSE IF err.response # "none" THEN err.response ELSE err.message

\* res.json throws on a value JSON.stringify cannot serialise: the response
\* stream axios leaves in error.response.data under responseType "stream".
Serialisable(body) == body # "stream"

ErrorResponse(status, body) == [status |-> status, kind |-> "json", body |-> [error |-> body]]

\* A limiter that lets one request too many by.
LimitExceeded_OffByOne(total) == total > RateMax + 1

\* limiter: a request is refused when the count of its address exceeds max.
LimitExceeded(total) == total > RateMax
TooManyResponse == [status |-> 429, kind |-> "text", body |-> [text |-> TooManyMessage]]

\* A required image of the request has no source the route reads.
HasSource(q, s) ==
  CASE q.route \in {"tryon", "media"} -> q[s] \cap {"file", "url"} # {}
    [] q.route = "base64"             -> "b64" \in q[s]
    [] q.route = "url"                -> "url" \in q[s]
    [] OTHER                          -> FALSE

\* The sources a route can carry for one image, and the requests of a server.
SourceSets(route) ==
  CASE route \in {"tryon", "media"} -> SUBSET {"file", "url"}
    [] route = "base64"             -> SUBSET {"b64"}
    [] route = "url"                -> SUBSET {"url"}

TypeInputs(v) == IF v = "typed" THEN ValidTypes \cup {"hat", Absent} ELSE {Absent}

AllInputs(v) ==
  UNION {[route : {rt}, type : TypeInputs(v), human : SourceSets(rt),
          garment : SourceSets(rt), desc : {Absent, "custom"}] : rt \in Routes(v)}

\* A request that names every source its route reads and no description.
Plain(q) ==
  /\ q.desc = Absent
  /\ q.human = UNION SourceSets(q.route)
  /\ q.garment = UNION SourceSets(q.route)

\* The requests the model sends, on every route: every type with every
\* source named; with the types "up" (accepted), "hat" (refused) and none,
\* every choice of at most one source per image, and a file together with a
\* URL for one image or for both; a description with the type "up" or none.
RequestInputs(v) ==
  {q \in AllInputs(v) :
     \/ Plain(q)
     \/ /\ q.type \in {"up", "hat", Absent}
        /\ q.desc = Absent
        /\ \/ Cardinality(q.human) <= 1 /\ Cardinality(q.garment) <= 1
           \/ q.human = {"file", "url"} /\ q.garment = {"url"}
           \/ q.human = {"url"} /\ q.garment = {"file", "url"}
     \/ q.type \in {"up", Absent} /\ Plain([q EXCEPT !.desc = Absent])}

\* The requests the model sends next to another one, to run at the same
\* time: those with every source named, and /tryon with both images
\* downloaded.
ConcurrentInputs(v) ==
  {q \in RequestInputs(v) :
     \/ Plain(q)
     \/ /\ q.route = "tryon" /\ q.type \in {"up", Absent} /\ q.desc = Absent
        /\ q.human = {"url"} /\ q.garment = {"url"}}

\* fs.readFile / sharp(path): the image a path holds now.
ReadFile(path) ==
  CASE path[1] = "multer" -> Image(path[2], path[3])
    [] path[1] = "shared" -> files[path[3]]
    [] OTHER              -> NoImage

PathOf(l, s) == IF s = "human" THEN l.humanPath ELSE l.garmentPath
WithPath(l, s, p) ==
  IF s = "human" THEN [l EXCEPT !.humanPath = p] ELSE [l EXCEPT !.garmentPath = p]
WithBuf(l, s, b) ==
  IF s = "human" THEN [l EXCEPT !.humanBuf = b] ELSE [l EXCEPT !.garmentBuf = b]

Ev(op, s, ph) == <<op, s, ph>>

-----------------------------------------------------------------------------
(* Fragments of a handler run: how the run ends. Each sets pc, resp, alive. *)

\* await <op>: the handler is suspended.
Await(r, op, s) ==
  /\ pc' = [pc EXCEPT ![r] = <<op, s>>]
  /\ UNCHANGED <<resp, alive>>

\* res.status(..).json(..) / res.send(..), then the handler returns.
Finish(r, response) ==
  /\ pc' = [pc EXCEPT ![r] = Done]
  /\ resp' = [resp EXCEPT ![r] = Append(@, response)]
  /\ UNCHANGED alive

\* The awaited promise never settles.
Hang(r) ==
  /\ pc' = [pc EXCEPT ![r] = <<"hung", "-">>]
  /\ UNCHANGED <<resp, alive>>

\* A catch block that logs the error and sends nothing.
Catch_NoResponse(r, err) == Hang(r)

\* express's answer to an error it is handed: the default error handler.
DefaultErrorResponse ==
  [status |-> 500, kind |-> "text/html", body |-> [text |-> "Internal Server Error"]]

\* catch (error): answer 500 with the error.  When res.json throws inside the
\* catch block the handler's promise is rejected.  express 4 ignores the
\* promise: no response is sent, and node logs a warning or ends the process.
\* express 5 hands the rejection to its default error handler.
Catch(r, err) ==
  LET body == CatchBody(variant, err) IN
  IF Serialisable(body)
  THEN Finish(r, ErrorResponse(500, body))
  ELSE \/ /\ pc' = [pc EXCEPT ![r] = <<"rejected", "-">>]
          /\ resp' = resp
          /\ alive' \in BOOLEAN
       \/ Finish(r, DefaultErrorResponse)

-----------------------------------------------------------------------------
(* Fragments of a handler run: the synchronous code between two awaits.     *)
(* Each sets pc, resp, alive, loc and trace of request r; q is the request, *)
(* l its locals so far and tr its trace so far.                             *)

\* Both resizes started at once (a Promise.all), the first one awaited.
StartResize_FanOut(r, s, l, tr) ==
  /\ loc' = [loc EXCEPT ![r] = l]
  /\ trace' = [trace EXCEPT ![r] =
       tr \o <<Ev("resize", "human", "start"), Ev("resize", "garment", "start")>>]
  /\ Await(r, "resize", s)

\* await resizeImage(<path of s>, <resized path of s>, 400, 600)
StartResize(r, s, l, tr) ==
  /\ loc' = [loc EXCEPT ![r] = l]
  /\ trace' = [trace EXCEPT ![r] = Append(tr, Ev("resize", s, "start"))]
  /\ Await(r, "resize", s)

\* await downloadImage(url, path): first the axios request.
StartDownload(r, s, l, tr) ==
  /\ loc' = [loc EXCEPT ![r] = l]
  /\ trace' = [trace EXCEPT ![r] = Append(tr, Ev("download", s, "start"))]
  /\ Await(r, "download", s)

\* The garment image taken from the URL first, else from the uploaded file.
AcquireGarment_URLFirst(r, q, l, tr) ==
  IF "url" \in q.garment
  THEN StartDownload(r, "garment", WithPath(l, "garment", DownloadPath("garment")), tr)
  ELSE IF "file" \in q.garment
  THEN StartResize(r, "human", WithPath(l, "garment", UploadPath(r, "garment")), tr)
  ELSE StartResize(r, "human", l, tr)

\* /tryon and /tryon/media, the garment image: the uploaded file, else the
\* URL, else the path stays undefined; then the resizes begin.
AcquireGarment(r, q, l, tr) ==
  IF "file" \in q.garment
  THEN StartResize(r, "human", WithPath(l, "garment", UploadPath(r, "garment")), tr)
  ELSE IF "url" \in q.garment
  THEN StartDownload(r, "garment", WithPath(l, "garment", DownloadPath("garment")), tr)
  ELSE StartResize(r, "human", l, tr)

\* /tryon and /tryon/media, the human image, then the garment image.
AcquireHuman(r, q, l, tr) ==
  IF "file" \in q.human
  THEN AcquireGarment(r, q, WithPath(l, "human", UploadPath(r, "human")), tr)
  ELSE IF "url" \in q.human
  THEN StartDownload(r, "human", WithPath(l, "human", DownloadPath("human")), tr)
  ELSE AcquireGarment(r, q, l, tr)

\* The handler after `await client(modelUrl)` returned, up to its next await.
AfterClient(r, q, l, tr) ==
  CASE q.route \in {"tryon", "media"} ->
         /\ AcquireHuman(r, q, l, tr)
         /\ UNCHANGED files
    [] q.route = "base64" ->
         IF ~HasSource(q, "human") \/ ~HasSource(q, "garment")
         THEN /\ Finish(r, ErrorResponse(400, Base64RequiredMessage))
              /\ loc' = [loc EXCEPT ![r] = l]
              /\ trace' = [trace EXCEPT ![r] = tr]
              /\ UNCHANGED files
         ELSE \* base64ToBuffer and fs.writeFileSync of both images
              /\ files' = [files EXCEPT !["humanImage_from_base64.jpg"] = Image(r, "human"),
                                        !["garmentImage_from_base64.jpg"] = Image(r, "garment")]
              /\ StartResize(r, "human",
                   WithPath(WithPath(l, "human", Base64Path("human")),
                            "garment", Base64Path("garment")), tr)
    [] q.route = "url" ->
         /\ UNCHANGED files
         /\ IF ~HasSource(q, "human") \/ ~HasSource(q, "garment")
            THEN /\ Finish(r, ErrorResponse(400, URLRequiredMessage))
                 /\ loc' = [loc EXCEPT ![r] = l]
                 /\ trace' = [trace EXCEPT ![r] = tr]
            ELSE StartDownload(r, "human",
                   WithPath(WithPath(l, "human", URLPath("human")),
                            "garment", URLPath("garment")), tr)

\* The top of a handler: resolve the endpoint, then `await client(modelUrl)`.
EnterHandler(r, q) ==
  LET modelUrl == ModelUrlOf(variant, q.type) IN
  IF modelUrl = InvalidModel
  THEN /\ Catch(r, Err("none", InvalidTypeMessage))
       /\ UNCHANGED <<loc, trace>>
  ELSE /\ loc' = [loc EXCEPT ![r] = [NoLocals EXCEPT !.modelUrl = modelUrl]]
       /\ trace' = [trace EXCEPT ![r] = <<Ev("connect", "-", "start")>>]
       /\ Await(r, "client", "-")

-----------------------------------------------------------------------------
(* Actions *)

Init ==
  /\ variant \in Variants
  /\ alive = TRUE
  /\ pc = [r \in Reqs |-> Idle]
  /\ req = [r \in Reqs |-> NoReq]
  /\ loc = [r \in Reqs |-> NoLocals]
  /\ files = [n \in SharedNames |-> NoImage]
  /\ resp = [r \in Reqs |-> <<>>]
  /\ trace = [r \in Reqs |-> <<>>]
  /\ predicts = [r \in Reqs |-> <<>>]
  /\ hits = [c \in Clients |-> 0]
  /\ admitted = [c \in Clients |-> 0]

\* A request from address c, one of inputs, arrives: app.use(limiter), then
\* the route's handler up to its first await.
Arrive(r, c, inputs) ==
  /\ alive
  /\ pc[r] = Idle
  /\ \E q \in inputs :
       /\ req' = [req EXCEPT ![r] = q]
       /\ UNCHANGED <<variant, files, predicts>>
       /\ IF variant = "typed"
          THEN /\ hits[c] < MaxHits
               /\ hits' = [hits EXCEPT ![c] = @ + 1]
               /\ IF LimitExceeded(hits[c] + 1)
                  THEN /\ Finish(r, TooManyResponse)
                       /\ UNCHANGED <<loc, trace, admitted>>
                  ELSE /\ admitted' = [admitted EXCEPT ![c] = @ + 1]
                       /\ EnterHandler(r, q)
          ELSE /\ UNCHANGED <<hits, admitted>>
               /\ EnterHandler(r, q)

\* `const appClient = await client(modelUrl)` settles: appClient is a
\* client of its own, connected to the endpoint modelUrl.
ClientDone(r) ==
  /\ alive
  /\ pc[r] = <<"client", "-">>
  /\ UNCHANGED <<variant, req, predicts, hits, admitted>>
  /\ \/ AfterClient(r, req[r], [loc[r] EXCEPT !.appClient = loc[r].modelUrl],
                     Append(trace[r], Ev("connect", "-", "ok")))
     \/ /\ Catch(r, Err("none", "connect error"))
        /\ trace' = [trace EXCEPT ![r] = Append(@, Ev("connect", "-", "fail"))]
        /\ UNCHANGED <<loc, files>>


\* downloadImage, `await axios({url, responseType: "stream", timeout})`
\* settles: a 2xx response arrives and its body is piped into
\* fs.createWriteStream(filepath), which truncates the file; or axios
\* rejects, on a non-2xx status (error.response.data is the response
\* stream) or on a timeout or connection failure (no error.response).
DownloadResponse(r) ==
  /\ alive
  /\ pc[r][1] = "download"
  /\ UNCHANGED <<variant, req, loc, predicts, hits, admitted>>
  /\ LET s == pc[r][2] IN
     \/ /\ files' = [files EXCEPT ![PathOf(loc[r], s)[3]] = NoImage]
        /\ trace' = [trace EXCEPT ![r] = @ \o <<Ev("download", s, "ok"), Ev("pipe", s, "start")>>]
        /\ Await(r, "pipe", s)
     \/ \E e \in {Err("stream", "Request failed with status code 404"),
                  Err("none", "timeout of 60000ms exceeded")} :
          /\ Catch(r, e)
          /\ trace' = [trace EXCEPT ![r] = Append(@, Ev("download", s, "fail"))]
          /\ UNCHANGED files

\* The handler after downloadImage of slot s resolved, up to its next await.
AfterDownload(r, s, q, l, tr) ==
  IF s = "human"
  THEN IF q.route = "url" THEN StartDownload(r, "garment", l, tr)
                          ELSE AcquireGarment(r, q, l, tr)
  ELSE StartResize(r, "human", l, tr)

\* downloadImage, the promise around the pipe settles: the writer emits
\* "finish" (resolve) or "error" (reject).  When the response stream fails
\* while the body arrives, pipe() forwards nothing to the writer: neither
\* event comes and the promise never settles.
PipeDone(r) ==
  /\ alive
  /\ pc[r][1] = "pipe"
  /\ UNCHANGED <<variant, req, predicts, hits, admitted>>
  /\ LET s == pc[r][2] IN
     \/ /\ files' = [files EXCEPT ![PathOf(loc[r], s)[3]] = Image(r, s)]
        /\ AfterDownload(r, s, req[r], loc[r], Append(trace[r], Ev("pipe", s, "ok")))
     \/ /\ Catch(r, Err("none", "write error"))
        /\ trace' = [trace EXCEPT ![r] = Append(@, Ev("pipe", s, "fail"))]
        /\ UNCHANGED <<loc, files>>
     \/ /\ Hang(r)
        /\ trace' = [trace EXCEPT ![r] = Append(@, Ev("pipe", s, "aborted"))]
        /\ UNCHANGED <<loc, files>>

\* `await resizeImage(inputPath, outputPath, 400, 600)` settles.  sharp reads
\* the input file and writes the resized picture to the shared output file;
\* it rejects when the input is missing or no picture.  With inputPath
\* undefined sharp either waits for a stream nobody writes or rejects.
ResizeDone(r) ==
  /\ alive
  /\ pc[r][1] = "resize"
  /\ UNCHANGED <<variant, req, loc, predicts, hits, admitted>>
  /\ LET s == pc[r][2]
         path == PathOf(loc[r], s)
         img == ReadFile(path)
     IN
     \/ /\ path # UndefinedPath
        /\ img # NoImage
        /\ files' = [files EXCEPT ![ResizedPath(s)[3]] = resizeImage(img, ResizeWidth, ResizeHeight)]
        /\ trace' = [trace EXCEPT ![r] = @ \o
             <<Ev("resize", s, "ok"),
               IF s = "human" THEN Ev("resize", "garment", "start")
                              ELSE Ev("read", "human", "start")>>]
        /\ IF s = "human" THEN Await(r, "resize", "garment")
                          ELSE Await(r, "read", "human")
     \/ /\ Catch(r, Err("none", "Input file is missing or of an unsupported image format"))
        /\ trace' = [trace EXCEPT ![r] = Append(@, Ev("resize", s, "fail"))]
        /\ UNCHANGED files
     \/ /\ path = UndefinedPath
        /\ Hang(r)
        /\ trace' = [trace EXCEPT ![r] = Append(@, Ev("resize", s, "hung"))]
        /\ UNCHANGED files

\* `await readLocalFile(<resized path>)` settles; after the garment's the
\* handler calls appClient.predict and awaits it.
ReadDone(r) ==
  /\ alive
  /\ pc[r][1] = "read"
  /\ UNCHANGED <<variant, req, files, hits, admitted>>
  /\ LET s == pc[r][2]
         l == WithBuf(loc[r], s, ReadFile(ResizedPath(s)))
     IN
     \/ /\ ReadFile(ResizedPath(s)) # NoImage
        /\ loc' = [loc EXCEPT ![r] = l]
        /\ IF s = "human"
           THEN /\ trace' = [trace EXCEPT ![r] = @ \o
                     <<Ev("read", s, "ok"), Ev("read", "garment", "start")>>]
                /\ Await(r, "read", "garment")
                /\ UNCHANGED predicts
           ELSE /\ trace' = [trace EXCEPT ![r] = @ \o
                     <<Ev("read", s, "ok"), Ev("predict", "-", "start")>>]
                /\ predicts' = [predicts EXCEPT ![r] =
                     Append(@, PredictPayload(l.humanBuf, l.garmentBuf, DescriptionOf(req[r])))]
                /\ Await(r, "predict", "-")
     \/ /\ Catch(r, Err("none", "ENOENT: no such file or directory"))
        /\ trace' = [trace EXCEPT ![r] = Append(@, Ev("read", s, "fail"))]
        /\ UNCHANGED <<loc, predicts>>

\* Success responses that are JSON {result: data} on every route.
ResultResponse_AlwaysJson(route, image) ==
  [status |-> 200, kind |-> "json", body |-> [result |-> [enc |-> "data", of |-> image]]]

\* The success response of a route.
ResultResponse(route, image) ==
  CASE route = "tryon"  -> [status |-> 200, kind |-> "json",
                            body |-> [result |-> [enc |-> "data", of |-> image]]]
    [] route = "base64" -> [status |-> 200, kind |-> "json",
                            body |-> [result |-> [enc |-> "base64", of |-> image]]]
    [] OTHER            -> [status |-> 200, kind |-> "image/png",
                            body |-> [bytes |-> [enc |-> "binary", of |-> image]]]

\* `await appClient.predict(...)` settles: /tryon answers with result.data,
\* the other routes go on to fetch result.data[0].url.
PredictDone(r) ==
  /\ alive
  /\ pc[r] = <<"predict", "-">>
  /\ UNCHANGED <<variant, req, loc, files, predicts, hits, admitted>>
  /\ \/ IF req[r].route = "tryon"
        THEN /\ Finish(r, ResultResponse("tryon", Composite(predicts[r][Len(predicts[r])])))
             /\ trace' = [trace EXCEPT ![r] = Append(@, Ev("predict", "-", "ok"))]
        ELSE /\ Await(r, "fetch", "-")
             /\ trace' = [trace EXCEPT ![r] = @ \o
                  <<Ev("predict", "-", "ok"), Ev("fetch", "-", "start")>>]
     \/ /\ Catch(r, Err("none", "predict error"))
        /\ trace' = [trace EXCEPT ![r] = Append(@, Ev("predict", "-", "fail"))]

\* `await axios.get(outputUrl, {responseType: "arraybuffer"})` settles.
FetchDone(r) ==
  /\ alive
  /\ pc[r] = <<"fetch", "-">>
  /\ UNCHANGED <<variant, req, loc, files, predicts, hits, admitted>>
  /\ \/ /\ Finish(r, ResultResponse(req[r].route, Composite(predicts[r][Len(predicts[r])])))
        /\ trace' = [trace EXCEPT ![r] = Append(@, Ev("fetch", "-", "ok"))]
     \/ \E e \in {Err("bytes", "Request failed with status code 404"),
                  Err("none", "socket hang up")} :
          /\ Catch(r, e)
          /\ trace' = [trace EXCEPT ![r] = Append(@, Ev("fetch", "-", "fail"))]

\* Two requests in flight at the same time, from two addresses: request 1
\* is any of the requests of the model, request 2 one of those sent next to
\* it.
ClientOf(r) == IF r = 1 THEN "a" ELSE "b"
InputsOf(r) == IF r = 1 THEN RequestInputs(variant) ELSE ConcurrentInputs(variant)

Next ==
  \E r \in Reqs :
    \/ Arrive(r, ClientOf(r), InputsOf(r))
    \/ ClientDone(r)
    \/ DownloadResponse(r)
    \/ PipeDone(r)
    \/ ResizeDone(r)
    \/ ReadDone(r)
    \/ PredictDone(r)
    \/ FetchDone(r)

Spec == Init /\ [][Next]_vars


-----------------------------------------------------------------------------
(* The rate-limited server under a long run of requests of one address,    *)
(* one at a time.                                                          *)

\* The requests of the long run: /tryon/url with and without its URLs, with
\* an accepted and with a refused type.
LimitInputs ==
  {q \in RequestInputs("typed") :
     q.route = "url" /\ q.type \in {"up", "hat"} /\ q.desc = Absent}

\* Nothing more happens for request r: the model stops following it.
Forget(r) ==
  /\ pc[r][1] \in {"done", "hung", "rejected"}
  /\ pc' = [pc EXCEPT ![r] = Idle]
  /\ req' = [req EXCEPT ![r] = NoReq]
  /\ loc' = [loc EXCEPT ![r] = NoLocals]
  /\ resp' = [resp EXCEPT ![r] = <<>>]
  /\ trace' = [trace EXCEPT ![r] = <<>>]
  /\ predicts' = [predicts EXCEPT ![r] = <<>>]
  /\ UNCHANGED <<variant, alive, files, hits, admitted>>

\* limiter: windowMs has passed for some addresses; their counts start anew.
WindowReset ==
  /\ alive
  /\ \E S \in SUBSET Clients \ {{}} :
       /\ \E c \in S : hits[c] > 0
       /\ hits' = [c \in Clients |-> IF c \in S THEN 0 ELSE hits[c]]
       /\ admitted' = [c \in Clients |-> IF c \in S THEN 0 ELSE admitted[c]]
  /\ UNCHANGED <<variant, alive, pc, req, loc, files, resp, trace, predicts>>

InitLimit == Init /\ variant = "typed"

NextLimit ==
  \/ Arrive(1, ClientOf(1), LimitInputs)
  \/ ClientDone(1)
  \/ DownloadResponse(1)
  \/ PipeDone(1)
  \/ ResizeDone(1)
  \/ ReadDone(1)
  \/ PredictDone(1)
  \/ FetchDone(1)
  \/ Forget(1)
  \/ WindowReset

SpecLimit == InitLimit /\ [][NextLimit]_vars


-----------------------------------------------------------------------------
(* Properties *)

Arrived(r) == pc[r] # Idle

\* Request r was passed on to its route's handler (the limiter let it by).
InHandler(r) == Arrived(r) /\ resp[r] # <<TooManyResponse>>

\* The handler of r started operation op / saw it end in phase ph.
Did(r, op) == \E i \in 1..Len(trace[r]) : trace[r][i][1] = op
Ended(r, op, ph) == \E i \in 1..Len(trace[r]) : trace[r][i][1] = op /\ trace[r][i][3] = ph

\* A required image of r has no source at all.
MissingImage(r) == \E s \in Slots : ~HasSource(req[r], s)

\* The server accepts r's type (the servers without a type parameter accept
\* every request).
TypeAccepted(r) == variant = "typed" => req[r].type \in ValidTypes

IsErrorResponse(rs) == rs.status \in {400, 500} /\ rs.kind = "json" /\ DOMAIN rs.body = {"error"}

\* C1: two requests in flight at the same time do not cross-contaminate:
\* the human and garment images of every predict call are the resized forms
\* of the calling request's own images.
C1_NoCrossContamination ==
  \A r \in Reqs : \A i \in 1..Len(predicts[r]) :
    /\ predicts[r][i][1].background = resizeImage(Image(r, "human"), 400, 600)
    /\ predicts[r][i][2] = resizeImage(Image(r, "garment"), 400, 600)

\* C2: on the routes with a type parameter, a request whose type is not up,
\* down or dress is rejected before any network call (connection, download,
\* predict, result fetch) and before any resize: its handler has ended with
\* an error response and has started no operation at all.
C2_InvalidTypeBeforeAnyCall ==
  \A r \in Reqs :
    (variant = "typed" /\ Arrived(r) /\ req[r].type \notin ValidTypes) =>
      /\ trace[r] = <<>>
      /\ predicts[r] = <<>>
      /\ pc[r] = Done
      /\ Len(resp[r]) = 1
      /\ resp[r][1].status >= 400

\* A request with a refused type and all its sources named was answered
\* while the other request is in the middle of its pipeline.
C2_Witness ==
  \E r, o \in Reqs :
    /\ variant = "typed" /\ req[r].type = "hat" /\ pc[r] = Done
    /\ ~MissingImage(r)
    /\ pc[o][1] = "resize"

\* C3: when a required image has no source at all and the type is valid,
\* the handler never calls the resize step and, once it has ended (none of
\* its operations having failed), has answered with a 400 JSON error.
C3_MissingImage400NoResize ==
  \A r \in Reqs :
    (InHandler(r) /\ TypeAccepted(r) /\ MissingImage(r)) =>
      /\ ~Did(r, "resize")
      /\ (pc[r] = Done /\ ~\E op \in {"connect", "download", "pipe"} : Ended(r, op, "fail")) =>
           /\ Len(resp[r]) = 1
           /\ resp[r][1].status = 400
           /\ IsErrorResponse(resp[r][1])

\* C4: when a required image has no source at all, the request is rejected
\* before any remote call: no connection to the model endpoint is opened
\* and no predict call is issued for it.
C4_MissingImageBeforeRemoteCall ==
  \A r \in Reqs :
    (InHandler(r) /\ MissingImage(r)) =>
      /\ ~Did(r, "connect")
      /\ ~Did(r, "predict")

\* C5: when the remote model call of a request fails (the connection or the
\* predict call raises), the request has received exactly one response, a
\* 500 with a JSON error body that carries the error's message.
C5_RemoteFailureIs500 ==
  \A r \in Reqs :
    (Ended(r, "connect", "fail") \/ Ended(r, "predict", "fail")) =>
      /\ pc[r] = Done
      /\ Len(resp[r]) = 1
      /\ resp[r][1].status = 500
      /\ resp[r][1].kind = "json"
      /\ DOMAIN resp[r][1].body = {"error"}
      /\ resp[r][1].body.error \in {"connect error", "predict error"}

\* One request saw its connection fail and the other its predict call.
C5_Witness ==
  \E r, o \in Reqs :
    /\ Ended(r, "connect", "fail")
    /\ Ended(o, "predict", "fail")
    /\ Len(resp[r]) = 1 /\ Len(resp[o]) = 1


\* C6: on the routes with a type parameter, a request handed to its route
\* whose type is absent or not up, down or dress gets exactly HTTP 500 with
\* the JSON body {error: "Invalid type parameter..."}, whatever its other
\* fields are.
C6_InvalidTypeIs500 ==
  \A r \in Reqs :
    (variant = "typed" /\ InHandler(r) /\ req[r].type \notin ValidTypes) =>
      resp[r] = <<[status |-> 500, kind |-> "json",
                   body |-> [error |-> "Invalid type parameter. Allowed values are 'up', 'down', or 'dress'."]]>>

\* A request without a type and without any image, and a request with an
\* unknown type and all its images, were both answered.
C6_Witness ==
  \E r, o \in Reqs :
    /\ variant = "typed"
    /\ req[r].route = "tryon" /\ req[r].type = Absent
    /\ req[r].human = {} /\ req[r].garment = {} /\ Len(resp[r]) = 1
    /\ req[o].route = "base64" /\ req[o].type = "hat"
    /\ ~MissingImage(o) /\ Len(resp[o]) = 1

\* C7: a request issues at most one predict call, and exactly one when it
\* completes successfully; the payload is the ordered tuple (human image,
\* garment image, description, true, true, 30, 42); a failed predict call
\* is not retried.
C7_OnePredictCall ==
  \A r \in Reqs :
    /\ Len(predicts[r]) <= 1
    /\ Cardinality({i \in 1..Len(trace[r]) : trace[r][i] = Ev("predict", "-", "start")})
         = Len(predicts[r])
    /\ (Len(resp[r]) > 0 /\ resp[r][1].status = 200) => Len(predicts[r]) = 1
    /\ Ended(r, "predict", "fail") => pc[r] = Done /\ Len(predicts[r]) = 1
    /\ \A i \in 1..Len(predicts[r]) :
         LET p == predicts[r][i] IN
         /\ Len(p) = 7
         /\ p[1].background.slot = "human"
         /\ p[1].background.dim = <<400, 600>>
         /\ p[2].slot = "garment"
         /\ p[2].dim = <<400, 600>>
         /\ p[3] = IF req[r].desc = Absent THEN "cloth fitting the person shape" ELSE req[r].desc
         /\ p[4] = TRUE /\ p[5] = TRUE /\ p[6] = 30 /\ p[7] = 42

\* One request completed successfully with a description of its own, the
\* other saw its predict call fail.
C7_Witness ==
  \E r, o \in Reqs :
    /\ Len(resp[r]) = 1 /\ resp[r][1].status = 200 /\ req[r].desc = "custom"
    /\ Ended(o, "predict", "fail") /\ pc[o] = Done

\* C8: every error raised at a step of a handler is caught at the handler
\* boundary: no request gets a second response, and a request one of whose
\* steps failed has exactly one response, an error response (400 or 500).
C8_EveryErrorIsAnswered ==
  \A r \in Reqs :
    /\ Len(resp[r]) <= 1
    /\ (\E i \in 1..Len(trace[r]) : trace[r][i][3] \in {"fail", "aborted"}) =>
         /\ Len(resp[r]) = 1
         /\ resp[r][1].status \in {400, 500}

\* C9: when the fetch of an input image fails (a non-2xx status, a timeout,
\* a connection failure, also while the body is streamed to the file), the
\* request ends with an error response and neither a resize nor a predict
\* call is made for it.
C9_FailedDownloadIsError ==
  \A r \in Reqs :
    (\E op \in {"download", "pipe"} : Ended(r, op, "fail") \/ Ended(r, op, "aborted")) =>
      /\ pc[r] = Done
      /\ Len(resp[r]) = 1
      /\ resp[r][1].status \in {400, 500}
      /\ ~Did(r, "resize")
      /\ ~Did(r, "predict")


\* C10: on the rate-limited server, within one window at most 100 requests
\* of one address reach a handler; every further request of that address
\* in the window is answered with the plain-text "too many requests"
\* message, and no operation (connection, download, resize, read, predict,
\* fetch) is started for it.
C10_RateLimit ==
  [][ /\ \A c \in Clients : admitted'[c] <= 100
      /\ \A r \in Reqs, c \in Clients :
           (pc[r] = Idle /\ pc'[r] # Idle /\ hits'[c] = hits[c] + 1 /\ admitted[c] >= 100) =>
             /\ resp'[r] = <<[status |-> 429, kind |-> "text",
                              body |-> [text |-> "Too many requests from this IP, please try again later."]]>>
             /\ pc'[r] = Done
             /\ trace'[r] = <<>>
             /\ predicts'[r] = <<>>
             /\ loc'[r] = NoLocals
             /\ files' = files
    ]_vars

\* The 101st request of the window was refused after 100 were let by.
C10_Witness ==
  \E r \in Reqs :
    /\ admitted[ClientOf(r)] = 100
    /\ hits[ClientOf(r)] = 101
    /\ resp[r] = <<TooManyResponse>>
    /\ ~MissingImage(r) /\ req[r].type = "up"

\* C11: the shape of a success response is fixed by the route alone: /tryon
\* answers JSON {result: the remote result data} and fetches nothing;
\* /tryon/base64 answers JSON {result: the base64 string of the bytes fetched
\* from the result URL}; /tryon/media and /tryon/url answer the fetched bytes
\* themselves with Content-Type image/png.
C11_ShapeByRoute ==
  \A r \in Reqs : \A i \in 1..Len(resp[r]) :
    resp[r][i].status = 200 =>
      LET rs == resp[r][i]
          result == [human |-> predicts[r][1][1].background, garment |-> predicts[r][1][2]]
      IN
      /\ Ended(r, "predict", "ok")
      /\ CASE req[r].route = "tryon" ->
                /\ rs.kind = "json"
                /\ rs.body = [result |-> [enc |-> "data", of |-> result]]
                /\ ~Did(r, "fetch")
           [] req[r].route = "base64" ->
                /\ rs.kind = "json"
                /\ rs.body = [result |-> [enc |-> "base64", of |-> result]]
                /\ Ended(r, "fetch", "ok")
           [] req[r].route \in {"media", "url"} ->
                /\ rs.kind = "image/png"
                /\ rs.body = [bytes |-> [enc |-> "binary", of |-> result]]
                /\ Ended(r, "fetch", "ok")
           [] OTHER -> FALSE

\* A request on /tryon and a request on /tryon/media both succeeded.
C11_Witness ==
  \E r, o \in Reqs :
    /\ req[r].route = "tryon" /\ Len(resp[r]) = 1 /\ resp[r][1].status = 200
    /\ req[o].route = "media" /\ Len(resp[o]) = 1 /\ resp[o][1].status = 200

\* C12: on the routes with a type parameter the remote endpoint of a request
\* is a function of its type only (up -> alexff91/FitMirrorUp, down ->
\* alexff91/FitMirror-Down, dress -> alexff91/FitMirror-Dress); it is
\* resolved when the handler starts and never changes; the client the
\* request connects, and calls predict on, is the client of that endpoint,
\* whatever the other requests in flight ask for.
C12_EndpointByOwnType ==
  \A r \in Reqs :
    (variant = "typed" /\ InHandler(r) /\ req[r].type \in {"up", "down", "dress"}) =>
      LET endpoint == CASE req[r].type = "up"    -> "alexff91/FitMirrorUp"
                        [] req[r].type = "down"  -> "alexff91/FitMirror-Down"
                        [] req[r].type = "dress" -> "alexff91/FitMirror-Dress"
      IN
      /\ loc[r].modelUrl = endpoint
      /\ loc[r].appClient = IF Ended(r, "connect", "ok") THEN endpoint ELSE "none"
      /\ Did(r, "predict") => loc[r].appClient = endpoint

\* Two requests of different types are in flight, both with their predict
\* call issued.
C12_Witness ==
  \E r, o \in Reqs :
    /\ variant = "typed"
    /\ req[r].type = "up" /\ pc[r] = <<"predict", "-">>
    /\ req[o].type = "dress" /\ pc[o] = <<"predict", "-">>

\* The place of an operation in the order of a handler's steps.
StepRank(op, s) ==
  CASE op = "connect"                   -> 0
    [] op = "download" /\ s = "human"   -> 1
    [] op = "pipe" /\ s = "human"       -> 2
    [] op = "download" /\ s = "garment" -> 3
    [] op = "pipe" /\ s = "garment"     -> 4
    [] op = "resize" /\ s = "human"     -> 5
    [] op = "resize" /\ s = "garment"   -> 6
    [] op = "read" /\ s = "human"       -> 7
    [] op = "read" /\ s = "garment"     -> 8
    [] op = "predict"                   -> 9
    [] op = "fetch"                     -> 10

\* C13: within one request all I/O is sequential and ordered.  In the
\* history of its operations a start is always followed by the end of that
\* same operation before anything else starts (at most one operation is
\* outstanding, and it is the one the handler awaits); an operation starts
\* only after the one before it ended successfully; the operations come in
\* the order connection, human image download, garment image download,
\* human resize, garment resize, human read, garment read, predict, result
\* fetch; and a response is sent only when nothing is outstanding, the
\* success response after the last step of the route.
C13_SequentialOrdered ==
  \A r \in Reqs :
    LET tr == trace[r]
        n == Len(tr)
    IN
    /\ \A i \in 1..n :
         IF i % 2 = 1
         THEN /\ tr[i][3] = "start"
              /\ i > 1 => /\ tr[i - 1][3] = "ok"
                          /\ StepRank(tr[i][1], tr[i][2]) > StepRank(tr[i - 1][1], tr[i - 1][2])
         ELSE /\ tr[i][3] \in {"ok", "fail", "hung", "aborted"}
              /\ tr[i][1] = tr[i - 1][1]
              /\ tr[i][2] = tr[i - 1][2]
    /\ (n % 2 = 1) <=> pc[r][1] \in {"client", "download", "pipe", "resize", "read", "predict", "fetch"}
    /\ (n % 2 = 1) =>
         /\ pc[r][1] = (IF tr[n][1] = "connect" THEN "client" ELSE tr[n][1])
         /\ pc[r][2] = tr[n][2]
         /\ resp[r] = <<>>
    /\ (Len(resp[r]) > 0 /\ resp[r][1].status = 200) =>
         /\ n > 0
         /\ tr[n] = <<(IF req[r].route = "tryon" THEN "predict" ELSE "fetch"), "-", "ok">>
         /\ \A i \in 5..8 : \E j \in 1..n : StepRank(tr[j][1], tr[j][2]) = i /\ tr[j][3] = "ok"

\* A request on /tryon/url went through all its steps to the response while
\* the other request stopped at a failed resize.
C13_Witness ==
  \E r, o \in Reqs :
    /\ req[r].route = "url" /\ Len(resp[r]) = 1 /\ resp[r][1].status = 200
    /\ Len(trace[r]) = 22
    /\ Ended(o, "resize", "fail")

\* C14: on /tryon and /tryon/media, for each image on its own: a download
\* is made for the image only when the request has no uploaded file for it
\* and names a URL for it; once both images are acquired (the resizes have
\* begun), an image with an uploaded file is that file, also when a URL was
\* supplied with it, and an image with a URL and no file is the finished
\* download.
C14_SourcePriority ==
  \A r \in Reqs : \A s \in Slots :
    req[r].route \in {"tryon", "media"} =>
      LET downloaded == \E i \in 1..Len(trace[r]) :
                          trace[r][i][1] \in {"download", "pipe"} /\ trace[r][i][2] = s
          path == IF s = "human" THEN loc[r].humanPath ELSE loc[r].garmentPath
      IN
      /\ downloaded => ("file" \notin req[r][s] /\ "url" \in req[r][s])
      /\ Did(r, "resize") =>
           /\ "file" \in req[r][s] => path = <<"multer", r, s>>
           /\ ("file" \notin req[r][s] /\ "url" \in req[r][s]) =>
                /\ \E i \in 1..Len(trace[r]) : trace[r][i] = <<"pipe", s, "ok">>
                /\ path = <<"shared", 0, IF s = "human" THEN "humanImage.jpg" ELSE "garmentImage.jpg">>

\* A request on /tryon/media with a file and a URL for the human image and
\* a URL alone for the garment image has begun its resizes.
C14_Witness ==
  \E r \in Reqs :
    /\ req[r].route = "media"
    /\ req[r].human = {"file", "url"} /\ req[r].garment = {"url"}
    /\ Did(r, "resize")

====
